---- MODULE Spec2Model ----
(***************************************************************************)
(* Model of biomedical-ner/biomedical_ner.py: the conversion script that   *)
(* loads a token-classification model, traces and converts it, saves the   *)
(* package and three side files, and runs a smoke test on the saved        *)
(* package.  One run of the script is one behaviour.  The external         *)
(* libraries (transformers, torch, coremltools, the file system) are       *)
(* modelled by their outcome: each call either returns or raises.          *)
(***************************************************************************)
EXTENDS Integers, Sequences, FiniteSets

\* ------------------------------------------------------------------ bounds
\* Sequence length of the tokenizer output and of the logits (512 in the
\* script, scaled down).
SeqLen == 4
\* Largest num_labels of the model configurations considered.
MaxLabels == 2

\* ------------------------------------------------------- external data
\* Entity-type strings the loaded configuration may use.
LabelNames == <<"O", "B-Medication", "B-Dosage", "B-Disease_disorder">>
\* Raw scores a prediction may hold for one class at one position.
LogitValues == {0, 1}
\* Tokens the tokenizer may emit between [CLS] and [SEP].
BodyTokens == {"take", "[UNK]"}
\* The special reserved tokens of the tokenizer (special_tokens.json).
SpecialTokens == {"[CLS]", "[SEP]", "[PAD]", "[UNK]", "[MASK]"}

\* -------------------------------------------------------------- dicts
\* A Python dict is a set of <<key, value>> pairs with distinct keys.
\* dict.get(key, default)
DictGet(d, k, default) ==
    IF \E p \in d : p[1] = k THEN (CHOOSE p \in d : p[1] = k)[2] ELSE default

DigitStr == <<"0", "1", "2", "3", "4", "5", "6", "7", "8", "9">>

\* str(k) of a small non-negative int: json.dump turns int keys into strings.
JsonKey(k) == DigitStr[k + 1]

\* Faulty variant of int(s): one too large.
PyIntOffByOne(s) == (CHOOSE i \in 0..9 : DigitStr[i + 1] = s) + 1

\* int(s) of a string of one digit.
PyInt(s) == CHOOSE i \in 0..9 : DigitStr[i + 1] = s

\* json.dump(label_info): int keys of id2label become strings, the values of
\* label2id and num_labels stay numbers.
JsonDumpLabels(cfg) ==
    [id2label   |-> {<<JsonKey(p[1]), p[2]>> : p \in cfg.id2label},
     label2id   |-> cfg.label2id,
     num_labels |-> cfg.num_labels]

\* {int(k): v for k, v in label_data["id2label"].items()}
RebuildId2Label(label_data) == {<<PyInt(p[1]), p[2]>> : p \in label_data.id2label}

\* The configurations a load may return: id2label maps 0..n-1 one-to-one to
\* label names, label2id is its inverse, num_labels is the number of entries.
ConfigOf(n, r) ==
    [id2label   |-> {<<i, LabelNames[((i + r) % n) + 1]>> : i \in 0..(n - 1)},
     label2id   |-> {<<LabelNames[((i + r) % n) + 1], i>> : i \in 0..(n - 1)},
     num_labels |-> n]

Configs == {ConfigOf(n, r) : n \in 2..MaxLabels, r \in 0..(MaxLabels - 1)}

EmptyLabels == [id2label |-> {}, label2id |-> {}, num_labels |-> 0]

\* ------------------------------------------------------------ decoding
\* np.exp(x - max) in thousandths, for x - max = -d.
ExpMilli(d) == IF d = 0 THEN 1000 ELSE IF d = 1 THEN 368 ELSE IF d = 2 THEN 135 ELSE 50

RowMax(row) == CHOOSE m \in {row[j] : j \in DOMAIN row} : \A j \in DOMAIN row : row[j] <= m

\* np.argmax: the first index holding the maximum.
Argmax(row) ==
    CHOOSE j \in DOMAIN row : /\ row[j] = RowMax(row)
                              /\ \A k \in DOMAIN row : row[k] = RowMax(row) => j <= k

RECURSIVE SumExp(_, _)
SumExp(row, S) ==
    IF S = {} THEN 0
    ELSE LET j == CHOOSE x \in S : TRUE
         IN  ExpMilli(RowMax(row) - row[j]) + SumExp(row, S \ {j})

\* softmax(x): exp_x / sum(exp_x), each entry kept as the fraction <<num, den>>.
softmax(row) == [j \in DOMAIN row |-> <<ExpMilli(RowMax(row) - row[j]), SumExp(row, DOMAIN row)>>]

\* np.max(softmax(x)): all entries share the denominator.
Confidence(row) ==
    LET sm == softmax(row)
    IN  CHOOSE c \in {sm[j] : j \in DOMAIN row} : \A j \in DOMAIN row : sm[j][1] <= c[1]

\* Faulty variant of the skip test: padding is not skipped.
IsSkippedNoPad(token) == token \in {"[CLS]", "[SEP]"}

\* token in ["[CLS]", "[SEP]", "[PAD]"]
IsSkipped(token) == token \in {"[CLS]", "[SEP]", "[PAD]"}

\* Faulty variant of the entity test: confidence >= 0.5.
IsEntityAtLeast(label, conf) == label # "O" /\ 2 * conf[1] >= conf[2]

\* label != "O" and confidence > 0.5
IsEntity(label, conf) == label # "O" /\ 2 * conf[1] > conf[2]

\* The loop over enumerate(zip(tokens, predicted_labels)), from position i on.
RECURSIVE DecodeLoop(_, _, _, _, _)
DecodeLoop(i, toks, lg, i2l, acc) ==
    IF i > Len(toks) THEN acc
    ELSE IF IsSkipped(toks[i]) THEN DecodeLoop(i + 1, toks, lg, i2l, acc)
    ELSE LET label == DictGet(i2l, Argmax(lg[i]), "UNKNOWN")
             confidence == Confidence(lg[i])
             line == <<toks[i], label, confidence>>
         IN  DecodeLoop(i + 1, toks, lg, i2l,
                 [report   |-> Append(acc.report, line),
                  entities |-> IF IsEntity(label, confidence)
                               THEN Append(acc.entities, line)
                               ELSE acc.entities])

\* ------------------------------------------------------- tokenizer, runtime
RECURSIVE Seqs(_, _)
Seqs(S, n) == IF n = 0 THEN {<<>>} ELSE {Append(q, x) : q \in Seqs(S, n - 1), x \in S}

Pad(n) == [i \in 1..n |-> "[PAD]"]

\* tokenizer(sample_text, padding="max_length", truncation=True, max_length=512)
\* followed by convert_ids_to_tokens: [CLS] body [SEP] [PAD]..., SeqLen tokens.
TokenSeqs ==
    UNION {{<<"[CLS]">> \o body \o <<"[SEP]">> \o Pad(SeqLen - 2 - k) : body \in Seqs(BodyTokens, k)}
           : k \in 1..(SeqLen - 2)}

Rows(n) == [0..(n - 1) -> LogitValues]

\* prediction["logits"][0]: one row of num_labels scores per position.  The
\* rows of the positions the decoder skips are held at zero.
LogitsFor(toks, n) ==
    LET scored == {i \in 1..Len(toks) : toks[i] \in BodyTokens}
    IN  {[i \in 1..Len(toks) |-> IF i \in scored THEN f[i] ELSE [j \in 0..(n - 1) |-> 0]]
         : f \in [scored -> Rows(n)]}

\* Faulty variant of the reload: the converter's in-memory object is reused.
LoadedModelInMemory(file, mem) == mem

\* ct.models.MLModel("BiomedicalNER.mlpackage"): a new object read from the file.
LoadedModel(file, mem) == [origin |-> "disk", content |-> file]

NoModel == [origin |-> "none", content |-> "none"]

\* ------------------------------------------------------------ control flow
\* Faulty variant of the statement order: the smoke test runs before the save.
StageAfterSmokeFirst(s) ==
    CASE s = "start"      -> "load"
      [] s = "load"       -> "wrap"
      [] s = "wrap"       -> "trace"
      [] s = "trace"      -> "convert"
      [] s = "convert"    -> "annotate"
      [] s = "annotate"   -> "reload"
      [] s = "save"       -> "sidefiles"
      [] s = "sidefiles"  -> "ret"
      [] s = "reload"     -> "tokload"
      [] s = "tokload"    -> "readlabels"
      [] s = "readlabels" -> "tokenize"
      [] s = "tokenize"   -> "predict"
      [] s = "predict"    -> "decode"
      [] s = "decode"     -> "save"
      [] s = "smoke_except" -> "save"
      [] s = "ret"        -> "call_test"
      [] OTHER            -> "end"

\* The statements of the script in program order: the position reached when
\* the step s returns normally.
StageAfter(s) ==
    CASE s = "start"      -> "load"
      [] s = "load"       -> "wrap"
      [] s = "wrap"       -> "trace"
      [] s = "trace"      -> "convert"
      [] s = "convert"    -> "annotate"
      [] s = "annotate"   -> "save"
      [] s = "save"       -> "sidefiles"
      [] s = "sidefiles"  -> "reload"
      [] s = "reload"     -> "tokload"
      [] s = "tokload"    -> "readlabels"
      [] s = "readlabels" -> "tokenize"
      [] s = "tokenize"   -> "predict"
      [] s = "predict"    -> "decode"
      [] s = "decode"     -> "ret"
      [] s = "smoke_except" -> "ret"
      [] s = "ret"        -> "call_test"
      [] OTHER            -> "end"

\* Faulty variants of the smoke-test try block: around the whole function
\* body, and around the predict call alone.
SmokeExceptCatchesAll(step) == step # "call_test"

SmokeExceptCatchesPredictOnly(step) == step = "predict"

\* The steps inside the try block of the smoke-test body (lines 183-224).
SmokeExceptCatches(step) == step \in {"predict", "decode"}

\* Faulty variant of the except clause of __main__: smoke-test errors escape.
MainExceptCatchesNotSmoke(step) ==
    step \notin {"reload", "tokload", "readlabels", "tokenize", "predict", "decode"}

\* The steps inside the try block of __main__ (lines 241-247): all of them.
MainExceptCatches(step) == TRUE

\* Where an exception raised by a step is handled.
HandlerFor(step) ==
    IF SmokeExceptCatches(step) THEN "smoke_except"
    ELSE IF MainExceptCatches(step) THEN "main_except"
    ELSE "uncaught"

\* ------------------------------------------------------------------ state
VARIABLES
    pc,             \* the statement the run executes next
    out,            \* the messages printed so far
    log,            \* the steps that have returned normally, in order
    exc,            \* the step whose exception is being propagated, or "none"
    handled,        \* <<step, handler>>: exceptions caught so far and where
    config,         \* model.config: id2label, label2id, num_labels
    files,          \* the side files written by this run
    labelsFile,     \* the content of labels.json
    pkgFile,        \* the content of BiomedicalNER.mlpackage
    pkgWrites,      \* the number of times the package file has been written
    coreml_model,   \* the in-memory package returned by ct.convert
    model,          \* the package object the smoke test predicts with
    id2label,       \* the id2label dict rebuilt from labels.json
    tokens,         \* tokenizer.convert_ids_to_tokens(...)
    logits,         \* prediction["logits"][0]
    report,         \* the token lines printed by the decode loop
    entities_found, \* the entity list of the decode loop
    exitStatus      \* the exit status of the process, -1 while it runs

ctl == <<pc, out, log, exc, handled>>
conv == <<config, coreml_model, pkgFile, pkgWrites>>
side == <<files, labelsFile>>
smoke == <<model, id2label, tokens, logits, report, entities_found>>
vars == <<pc, out, log, exc, handled, config, files, labelsFile, pkgFile, pkgWrites,
          coreml_model, model, id2label, tokens, logits, report, entities_found,
          exitStatus>>

Init ==
    /\ pc = "start"
    /\ out = <<>>
    /\ log = <<>>
    /\ exc = "none"
    /\ handled = {}
    /\ config = EmptyLabels
    /\ files = {}
    /\ labelsFile = EmptyLabels
    /\ pkgFile \in {"absent", "stale"}
    /\ pkgWrites = 0
    /\ coreml_model = NoModel
    /\ model = NoModel
    /\ id2label = {}
    /\ tokens = <<>>
    /\ logits = <<>>
    /\ report = <<>>
    /\ entities_found = <<>>
    /\ exitStatus = -1

\* The step returns normally after printing msgs.
Proceed(step, msgs) ==
    /\ pc' = StageAfter(step)
    /\ out' = out \o msgs
    /\ log' = Append(log, step)
    /\ UNCHANGED <<exc, handled>>

\* The step raises after printing msgs.
Raise(step, msgs) ==
    /\ pc' = HandlerFor(step)
    /\ out' = out \o msgs
    /\ exc' = step
    /\ UNCHANGED <<log, handled>>

\* The locals of save_tokenizer_info are gone once the function is left.
DropLocals ==
    /\ model' = NoModel
    /\ id2label' = {}
    /\ tokens' = <<>>
    /\ logits' = <<>>
    /\ report' = <<>>
    /\ entities_found' = <<>>

\* __main__, line 242.
Start ==
    /\ pc = "start"
    /\ Proceed("start", <<"starting">>)
    /\ UNCHANGED <<conv, side, smoke, exitStatus>>

\* Lines 16-25: load tokenizer and model, print the configuration.
LoadModel ==
    /\ pc = "load"
    /\ \/ /\ \E c \in Configs : config' = c
          /\ Proceed("load", <<"loading_model", "model_config", "number_of_labels", "label_mapping">>)
       \/ /\ Raise("load", <<"loading_model">>)
          /\ UNCHANGED config
    /\ UNCHANGED <<coreml_model, pkgFile, pkgWrites, side, smoke, exitStatus>>

\* Lines 28-49: eval mode, example inputs, NERModelWrapper.
Wrap ==
    /\ pc = "wrap"
    /\ \/ Proceed("wrap", <<>>)
       \/ Raise("wrap", <<>>)
    /\ UNCHANGED <<conv, side, smoke, exitStatus>>

\* Lines 52-58: torch.jit.trace.
Trace ==
    /\ pc = "trace"
    /\ \/ Proceed("trace", <<"tracing">>)
       \/ Raise("trace", <<"tracing">>)
    /\ UNCHANGED <<conv, side, smoke, exitStatus>>

\* Lines 61-84: ct.convert.
Convert ==
    /\ pc = "convert"
    /\ \/ /\ coreml_model' = [origin |-> "converter", content |-> "package"]
          /\ Proceed("convert", <<"converting">>)
       \/ /\ Raise("convert", <<"converting">>)
          /\ UNCHANGED coreml_model
    /\ UNCHANGED <<config, pkgFile, pkgWrites, side, smoke, exitStatus>>

\* Lines 87-95: metadata and tensor descriptions on the in-memory package.
Annotate ==
    /\ pc = "annotate"
    /\ coreml_model' = [coreml_model EXCEPT !.content = "package+metadata"]
    /\ Proceed("annotate", <<>>)
    /\ UNCHANGED <<config, pkgFile, pkgWrites, side, smoke, exitStatus>>

\* Lines 98-100: coreml_model.save(output_path).
SavePackage ==
    /\ pc = "save"
    /\ \/ /\ pkgFile' = coreml_model.content
          /\ pkgWrites' = pkgWrites + 1
          /\ Proceed("save", <<"model_saved">>)
       \/ /\ Raise("save", <<>>)
          /\ UNCHANGED <<pkgFile, pkgWrites>>
    /\ UNCHANGED <<config, coreml_model, side, smoke, exitStatus>>

\* Lines 112-147: vocab.json, labels.json, special_tokens.json, in that order;
\* a failing write leaves the files written before it.
SaveSideFiles ==
    /\ pc = "sidefiles"
    /\ \/ /\ files' = files \cup {"vocab.json", "labels.json", "special_tokens.json"}
          /\ labelsFile' = JsonDumpLabels(config)
          /\ Proceed("sidefiles", <<"tokenizer_info_saved", "vocab_json", "labels_json", "special_tokens_json">>)
       \/ /\ files' = files \cup {"vocab.json", "labels.json"}
          /\ labelsFile' = JsonDumpLabels(config)
          /\ Raise("sidefiles", <<>>)
       \/ /\ files' = files \cup {"vocab.json"}
          /\ UNCHANGED labelsFile
          /\ Raise("sidefiles", <<>>)
       \/ /\ UNCHANGED <<files, labelsFile>>
          /\ Raise("sidefiles", <<>>)
    /\ UNCHANGED <<conv, smoke, exitStatus>>

\* Line 155: reload the package from disk.
Reload ==
    /\ pc = "reload"
    /\ \/ /\ pkgFile # "absent"
          /\ model' = LoadedModel(pkgFile, coreml_model)
          /\ Proceed("reload", <<>>)
       \/ /\ Raise("reload", <<>>)
          /\ UNCHANGED model
    /\ UNCHANGED <<conv, side, id2label, tokens, logits, report, entities_found, exitStatus>>

\* Line 158: load the tokenizer again.
LoadTestTokenizer ==
    /\ pc = "tokload"
    /\ \/ Proceed("tokload", <<>>)
       \/ Raise("tokload", <<>>)
    /\ UNCHANGED <<conv, side, smoke, exitStatus>>

\* Lines 160-162: read labels.json and rebuild id2label with int keys.
ReadLabels ==
    /\ pc = "readlabels"
    /\ \/ /\ "labels.json" \in files
          /\ id2label' = RebuildId2Label(labelsFile)
          /\ Proceed("readlabels", <<>>)
       \/ /\ Raise("readlabels", <<>>)
          /\ UNCHANGED id2label
    /\ UNCHANGED <<conv, side, model, tokens, logits, report, entities_found, exitStatus>>

\* Lines 165-180: tokenize the sample text, print the encoding.
Tokenize ==
    /\ pc = "tokenize"
    /\ \/ /\ \E t \in TokenSeqs : tokens' = t
          /\ Proceed("tokenize", <<"testing_with_sample", "encoded">>)
       \/ /\ Raise("tokenize", <<"testing_with_sample">>)
          /\ UNCHANGED tokens
    /\ UNCHANGED <<conv, side, model, id2label, logits, report, entities_found, exitStatus>>

\* Lines 184-190: model.predict and the logits of its result.
Predict ==
    /\ pc = "predict"
    /\ \/ /\ \E lg \in LogitsFor(tokens, config.num_labels) : logits' = lg
          /\ Proceed("predict", <<"prediction_successful">>)
       \/ /\ Raise("predict", <<>>)
          /\ UNCHANGED logits
    /\ UNCHANGED <<conv, side, model, id2label, tokens, report, entities_found, exitStatus>>

\* Lines 193-223: arg-max, token report, entity list and summary.
Decode ==
    /\ pc = "decode"
    /\ \/ LET r == DecodeLoop(1, tokens, logits, id2label, [report |-> <<>>, entities |-> <<>>])
          IN  /\ report' = r.report
              /\ entities_found' = r.entities
              /\ Proceed("decode",
                     <<"token_predictions", "token_lines", "entities_found">>
                     \o (IF r.entities = <<>> THEN <<"no_high_confidence_entities">> ELSE <<>>))
       \/ /\ Raise("decode", <<>>)
          /\ UNCHANGED <<report, entities_found>>
    /\ UNCHANGED <<conv, side, model, id2label, tokens, logits, exitStatus>>

\* Lines 225-230: the except clause of the smoke-test body.
SmokeExcept ==
    /\ pc = "smoke_except"
    /\ pc' = StageAfter("smoke_except")
    /\ out' = out \o <<"prediction_failed", "input_shape_mismatch", "model_conversion_issues",
                       "coreml_compatibility_problems">>
    /\ handled' = handled \cup {<<exc, "smoke">>}
    /\ exc' = "none"
    /\ UNCHANGED <<log, conv, side, smoke, exitStatus>>

\* Lines 105 and 244: save_tokenizer_info and the conversion function return,
\* __main__ prints the completion message.
ReturnFromConvert ==
    /\ pc = "ret"
    /\ Proceed("ret", <<"conversion_completed">>)
    /\ DropLocals
    /\ UNCHANGED <<conv, side, exitStatus>>

\* Line 247: test_conversion is not defined anywhere in the script.
CallTestConversion ==
    /\ pc = "call_test"
    /\ Raise("call_test", <<>>)
    /\ UNCHANGED <<conv, side, smoke, exitStatus>>

\* Lines 249-251: the except clause of __main__.
MainExcept ==
    /\ pc = "main_except"
    /\ pc' = "end"
    /\ out' = out \o <<"error_during_conversion", "install_hint">>
    /\ handled' = handled \cup {<<exc, "main">>}
    /\ exc' = "none"
    /\ DropLocals
    /\ UNCHANGED <<log, conv, side, exitStatus>>

\* The interpreter ends: status 0, or 1 after an exception nobody caught.
Exit ==
    /\ pc \in {"end", "uncaught"}
    /\ pc' = "done"
    /\ exitStatus' = IF pc = "uncaught" THEN 1 ELSE 0
    /\ UNCHANGED <<out, log, exc, handled, conv, side, smoke>>

Next ==
    \/ Start
    \/ LoadModel
    \/ Wrap
    \/ Trace
    \/ Convert
    \/ Annotate
    \/ SavePackage
    \/ SaveSideFiles
    \/ Reload
    \/ LoadTestTokenizer
    \/ ReadLabels
    \/ Tokenize
    \/ Predict
    \/ Decode
    \/ SmokeExcept
    \/ ReturnFromConvert
    \/ CallTestConversion
    \/ MainExcept
    \/ Exit

Spec == Init /\ [][Next]_vars

\* ------------------------------------------------------------ properties
Range(q) == {q[i] : i \in 1..Len(q)}

\* The order of the stages the pipeline is described by.
StageOrder ==
    <<"start", "load", "wrap", "trace", "convert", "annotate", "save", "sidefiles",
      "reload", "tokload", "readlabels", "tokenize", "predict", "decode", "ret">>

Rank(s) == CHOOSE k \in 1..Len(StageOrder) : StageOrder[k] = s

Before(s) == SubSeq(StageOrder, 1, Rank(s) - 1)

SmokeMessages ==
    {"testing_with_sample", "encoded", "prediction_successful", "token_predictions",
     "token_lines", "entities_found", "no_high_confidence_entities", "prediction_failed",
     "input_shape_mismatch", "model_conversion_issues", "coreml_compatibility_problems"}

\* The last n messages printed.
LastOut(q, n) == IF Len(q) < n THEN q ELSE SubSeq(q, Len(q) - n + 1, Len(q))

DecodeDone == pc = "ret" /\ "decode" \in Range(log)

\* C1 (as stated): an exception of reload, predict or decode is caught by the
\* smoke tester's own except clause and never reaches the top-level handler.
C1_AsStated ==
    \A s \in {"reload", "predict", "decode"} :
        /\ exc = s => pc = "smoke_except"
        /\ <<s, "main">> \notin handled

\* C1 (amended): an exception of predict or of decoding is caught by the except
\* clause of the smoke-test body, which prints 'Prediction failed' and its three
\* causes and then returns; it is never handed to the top-level handler.  An
\* exception of the reload, of the tokenizer load, of reading labels.json or of
\* tokenizing is raised outside that try block and goes to the top-level handler.
C1_PredictionFailureContained ==
    /\ \A s \in {"predict", "decode"} :
        /\ exc = s => pc = "smoke_except"
        /\ <<s, "main">> \notin handled
        /\ <<s, "smoke">> \in handled =>
            /\ \E k \in 1..Len(out) - 3 :
                   SubSeq(out, k, k + 3) =
                       <<"prediction_failed", "input_shape_mismatch",
                         "model_conversion_issues", "coreml_compatibility_problems">>
            /\ "error_during_conversion" \in Range(out) => <<"call_test", "main">> \in handled
            /\ pc \in {"ret", "call_test", "main_except", "end", "done"}
    /\ \A s \in {"reload", "tokload", "readlabels", "tokenize"} :
        /\ exc = s => pc = "main_except"
        /\ <<s, "smoke">> \notin handled
        /\ <<s, "main">> \in handled => "prediction_failed" \notin Range(out)

C1_Witness ==
    /\ pc = "ret"
    /\ <<"decode", "smoke">> \in handled
    /\ "prediction_failed" \in Range(out)

\* C2: an exception of a conversion-time stage (load, wrap, trace, convert,
\* save) goes to the top-level handler, which prints the error message and the
\* installation hint as the last output; no later stage runs: the log holds
\* exactly the stages before the failing one, no side file is written, no smoke
\* test message is printed, and the package is not written after a failure.
C2_ConversionFailureAborts ==
    \A s \in {"load", "wrap", "trace", "convert", "save"} :
        /\ exc = s => pc = "main_except" /\ log = Before(s)
        /\ <<s, "smoke">> \notin handled
        /\ <<s, "main">> \in handled =>
            /\ pc \in {"end", "done"}
            /\ log = Before(s)
            /\ LastOut(out, 2) = <<"error_during_conversion", "install_hint">>
            /\ pkgWrites = 0
            /\ files = {}
            /\ Range(out) \cap SmokeMessages = {}
            /\ handled = {<<s, "main">>}

C2_Witness ==
    /\ pc = "done"
    /\ <<"save", "main">> \in handled
    /\ "convert" \in Range(log)

\* C3: the stages run at most once and in the fixed order: a stage starts only
\* when every earlier stage has completed, the completed stages are strictly
\* ordered, and the reload of the package and the read of labels.json come
\* after this run wrote the package and labels.json.
C3_StagesInOrder ==
    /\ \A i, j \in 1..Len(log) : i < j => Rank(log[i]) < Rank(log[j])
    /\ (pc \in Range(StageOrder) /\ pc # "ret") => log = Before(pc)
    /\ pc = "ret" => Before("predict") = SubSeq(log, 1, Rank("predict") - 1)
    /\ "reload" \in Range(log) \/ pc = "reload" =>
           pkgWrites = 1 /\ pkgFile = "package+metadata"
    /\ "readlabels" \in Range(log) \/ pc = "readlabels" =>
           "labels.json" \in files /\ labelsFile = JsonDumpLabels(config)

C3_Witness == DecodeDone /\ log = Before("ret")

\* C4: the package file is written at most once, exactly once when convert
\* returned and the save did not fail, and the object the smoke test predicts
\* with is the one read back from that file, not the converter's object.
C4_SavedOnceAndReloaded ==
    /\ pkgWrites <= 1
    /\ ("convert" \in Range(log) /\ pc \notin {"annotate", "save"}
            /\ exc # "save" /\ <<"save", "main">> \notin handled) =>
           pkgWrites = 1 /\ pkgFile = coreml_model.content
    /\ pc \in {"tokload", "readlabels", "tokenize", "predict", "decode", "smoke_except"} =>
           model = [origin |-> "disk", content |-> pkgFile]
    /\ model.origin # "converter"

C4_Witness ==
    /\ pc = "decode"
    /\ pkgWrites = 1
    /\ model.origin = "disk"
    /\ model.content = "package+metadata"

\* The label and the confidence the smoke test reports for position i.
LabelAt(i) == DictGet(id2label, Argmax(logits[i]), "UNKNOWN")

ConfAt(i) == Confidence(logits[i])

\* The k-th smallest member of a set of positions.
KthOf(P, k) == CHOOSE i \in P : Cardinality({j \in P : j < i}) = k - 1

C7_LabelsRoundTrip ==
    /\ "labels.json" \in files =>
        /\ labelsFile.label2id = config.label2id
        /\ labelsFile.num_labels = config.num_labels
        /\ Cardinality(labelsFile.id2label) = config.num_labels
        /\ \A i \in 0..(config.num_labels - 1) :
               DictGet(labelsFile.id2label, DigitStr[i + 1], "UNKNOWN")
                   = DictGet(config.id2label, i, "UNKNOWN")
    /\ pc \in {"tokenize", "predict", "decode", "smoke_except", "ret"} =>
        /\ id2label = config.id2label
        /\ \A i \in 0..(config.num_labels - 1) :
            /\ DictGet(id2label, i, "UNKNOWN") # "UNKNOWN"
            /\ DictGet(id2label, i, "UNKNOWN") = DictGet(config.id2label, i, "UNKNOWN")
            /\ DictGet(labelsFile.label2id, DictGet(id2label, i, "UNKNOWN"), -1) = i
    /\ \A k \in 1..Len(report) : report[k][2] # "UNKNOWN"

C7_Witness ==
    /\ DecodeDone
    /\ config.num_labels = MaxLabels
    /\ \E k \in 1..Len(report) : report[k][2] = DictGet(config.id2label, MaxLabels - 1, "UNKNOWN")

\* C8: once the package is saved, the exit status is 0 whether or not a step
\* of the smoke test raised: the status of a run whose smoke test failed is
\* the status of a run whose smoke test succeeded.
C8_ExitStatusUnaffected ==
    (pc = "done" /\ "save" \in Range(log)) => exitStatus = 0

C8_Witness ==
    /\ pc = "done"
    /\ "save" \in Range(log)
    /\ exitStatus = 0
    /\ handled \cap {<<"reload", "main">>, <<"predict", "smoke">>, <<"decode", "smoke">>} # {}

\* No library call and no file operation of the run raised.
NoExternalFailure == \A p \in handled : p[1] = "call_test"

\* C9 (as stated): in a run where no external operation fails the top-level
\* handler is never entered, its two messages are not printed, and the last
\* output is one of the smoke tester's.
C9_AsStated ==
    (pc = "done" /\ NoExternalFailure) =>
        /\ \A p \in handled : p[2] # "main"
        /\ "error_during_conversion" \notin Range(out)
        /\ "install_hint" \notin Range(out)
        /\ out[Len(out)] \in SmokeMessages

\* C10 (as stated): the reload of the package, the first action of the smoke
\* test, happens only after the conversion function has returned and
\* 'Conversion completed successfully!' has been printed.
C10_AsStated ==
    (pc = "reload" \/ "reload" \in Range(log)) =>
        /\ "ret" \in Range(log)
        /\ "conversion_completed" \in Range(out)

====
